---- MODULE Spec2Model ----
(***************************************************************************)
(* Model of src/main.py: the puzzle filter (filter_puzzles), its caller    *)
(* main, and the move translator (translate_moves).                        *)
(*                                                                         *)
(* Representation of Python values                                         *)
(*   - a str is the sequence of its pieces: Rating and Themes strings are  *)
(*     sequences of one-character strings; a Moves string is a sequence    *)
(*     whose elements are " " or one coordinate move ("a1d1"), so that     *)
(*     <<"a1d1", " ", "g8g7">> is "a1d1 g8g7" and <<"a1d1", "g8g7">> is    *)
(*     the eight-character word "a1d1g8g7";                                *)
(*   - an optional value is a sequence of length at most one: <<>> is      *)
(*     None (or NaN, or a key absent from the configuration), <<v>> is v;  *)
(*   - a FEN is a TLA+ string, a DataFrame is the sequence of its rows,    *)
(*     each row carrying its index label idx.                              *)
(***************************************************************************)
EXTENDS Integers, Sequences, FiniteSets

VARIABLES pc, caller, table, config, args, data, i, printed, result, tin, tout

vars == <<pc, caller, table, config, args, data, i, printed, result, tin, tout>>

(***************************************************************************)
(* Bounds of the model.                                                    *)
(***************************************************************************)
MaxRows == 2
MaxCapRows == 3
MaxBound == 2
MaxCap == 3
MaxMoves == 3

None == <<>>
Some(v) == <<v>>

Min(a, b) == IF a <= b THEN a ELSE b

SeqsUpTo(S, n) == UNION {[1..k -> S] : k \in 0..n}

(***************************************************************************)
(* Strings.                                                                *)
(***************************************************************************)
Digits == {"0", "1", "2", "3", "4", "5", "6", "7", "8", "9"}

DigitVal(c) ==
    CASE c = "0" -> 0 [] c = "1" -> 1 [] c = "2" -> 2 [] c = "3" -> 3
      [] c = "4" -> 4 [] c = "5" -> 5 [] c = "6" -> 6 [] c = "7" -> 7
      [] c = "8" -> 8 [] c = "9" -> 9

RECURSIVE Decimal(_)
Decimal(s) ==
    IF s = <<>> THEN 0
    ELSE 10 * Decimal(SubSeq(s, 1, Len(s) - 1)) + DigitVal(s[Len(s)])

AllDigits(s) == \A k \in 1..Len(s) : s[k] \in Digits

\* The characters of the Rating strings of the model.
RatingChars == Digits \cup {" ", "+", "-", ".", "e", "x"}

RECURSIVE Strip(_)
Strip(s) ==
    IF s # <<>> /\ s[1] = " " THEN Strip(Tail(s))
    ELSE IF s # <<>> /\ s[Len(s)] = " " THEN Strip(SubSeq(s, 1, Len(s) - 1))
    ELSE s

\* The part of s before the first c (all of s without one), and the part
\* after it.
Before(s, c) ==
    IF \E k \in 1..Len(s) : s[k] = c
    THEN SubSeq(s, 1, (CHOOSE k \in 1..Len(s) :
                           s[k] = c /\ \A j \in 1..(k - 1) : s[j] # c) - 1)
    ELSE s

After(s, c) == SubSeq(s, Len(Before(s, c)) + 2, Len(s))

Has(s, c) == \E k \in 1..Len(s) : s[k] = c

Unsigned(s) == IF s # <<>> /\ s[1] \in {"+", "-"} THEN Tail(s) ELSE s

SignOf(s) == IF s # <<>> /\ s[1] = "-" THEN -1 ELSE 1

RECURSIVE Pow10(_)
Pow10(k) == IF k <= 0 THEN 1 ELSE 10 * Pow10(k - 1)

\* A number is a fraction num/den with den a power of ten, in lowest such
\* terms, so that equal numbers are equal values.
RECURSIVE Number(_, _)
Number(num, den) ==
    IF den > 1 /\ num % 10 = 0 THEN Number(num \div 10, den \div 10)
    ELSE [num |-> num, den |-> den]

\* pd.to_numeric(x, errors='coerce') on one cell, for a string over
\* RatingChars: blanks around the number are skipped; the number is an
\* optional sign, digits with an optional fraction, and an optional exponent
\* "e" with its own sign.  The empty string and every other string are NaN.
ToNumeric(s) ==
    LET body == Unsigned(Strip(s))
        mant == Before(body, "e")
        expo == After(body, "e")
        ip == Before(mant, ".")
        fp == After(mant, ".")
        wellFormed ==
            /\ AllDigits(ip) /\ AllDigits(fp) /\ Len(ip) + Len(fp) >= 1
            /\ Has(body, "e") => (Unsigned(expo) # <<>> /\ AllDigits(Unsigned(expo)))
        e == (IF Has(body, "e") THEN SignOf(expo) * Decimal(Unsigned(expo)) ELSE 0)
                 - Len(fp)
    IN IF wellFormed
       THEN Some(Number(SignOf(Strip(s)) * Decimal(ip \o fp) * Pow10(e), Pow10(-e)))
       ELSE None

\* str.split(' '): cut at every space, empty pieces kept.
RECURSIVE SplitOn(_)
SplitOn(s) ==
    IF \A k \in 1..Len(s) : s[k] # " " THEN <<s>>
    ELSE LET p == CHOOSE k \in 1..Len(s) :
                      s[k] = " " /\ \A j \in 1..(k - 1) : s[j] # " "
         IN <<SubSeq(s, 1, p - 1)>> \o SplitOn(SubSeq(s, p + 1, Len(s)))

\* str.split(): the maximal runs of non-space characters.
Split(s) == SelectSeq(SplitOn(s), LAMBDA t : t # <<>>)

\* ' '.join(tokens)
RECURSIVE Join(_)
Join(tokens) ==
    IF tokens = <<>> THEN <<>>
    ELSE IF Len(tokens) = 1 THEN tokens[1]
    ELSE tokens[1] \o <<" ">> \o Join(Tail(tokens))

\* re.search(pat, s) for patterns over letters and ".": the pattern matches
\* at some offset, "." matching any character.
Search(pat, s) ==
    \E off \in 0..(Len(s) - Len(pat)) :
        \A k \in 1..Len(pat) : pat[k] = "." \/ pat[k] = s[off + k]

\* Series.str.contains(theme, na=False) on one cell: pandas reads the tag
\* as a regular expression; a missing cell gives False.
Contains(themes, theme) == themes # None /\ Search(theme, themes[1])

(***************************************************************************)
(* The chess rules adapter (python-chess), restricted to the positions     *)
(* that the coordinate moves of UciMoves reach from StartFen: two white    *)
(* rooks and the kings.  Each entry is one legal move: the position it is  *)
(* played in, the move, its algebraic notation there, and the position     *)
(* after it.  The same move has a different notation in different          *)
(* positions (a1d1 is Rad1 while the h-rook can also reach d1, Rd1 once    *)
(* it is gone).                                                            *)
(***************************************************************************)
UciMoves == {"a1d1", "h1h7", "g8g7", "g8h7", "d1d7"}

StartFen == "6k1/8/8/8/8/8/6K1/R6R w - - 0 1"

ChessTable ==
    { [fen |-> "6k1/8/8/8/8/8/6K1/R6R w - - 0 1", uci |-> "a1d1",
       san |-> "Rad1", next |-> "6k1/8/8/8/8/8/6K1/3R3R b - - 1 1"],
      [fen |-> "6k1/8/8/8/8/8/6K1/R6R w - - 0 1", uci |-> "h1h7",
       san |-> "Rh7", next |-> "6k1/7R/8/8/8/8/6K1/R7 b - - 1 1"],
      [fen |-> "6k1/8/8/8/8/8/6K1/3R3R b - - 1 1", uci |-> "g8g7",
       san |-> "Kg7", next |-> "8/6k1/8/8/8/8/6K1/3R3R w - - 2 2"],
      [fen |-> "8/6k1/8/8/8/8/6K1/3R3R w - - 2 2", uci |-> "d1d7",
       san |-> "Rd7+", next |-> "8/3R2k1/8/8/8/8/6K1/7R b - - 3 2"],
      [fen |-> "8/6k1/8/8/8/8/6K1/3R3R w - - 2 2", uci |-> "h1h7",
       san |-> "Rh7+", next |-> "8/6kR/8/8/8/8/6K1/3R4 b - - 3 2"],
      [fen |-> "6k1/7R/8/8/8/8/6K1/R7 b - - 1 1", uci |-> "g8h7",
       san |-> "Kxh7", next |-> "8/7k/8/8/8/8/6K1/R7 w - - 0 2"],
      [fen |-> "8/7k/8/8/8/8/6K1/R7 w - - 0 2", uci |-> "a1d1",
       san |-> "Rd1", next |-> "8/7k/8/8/8/8/6K1/3R4 b - - 1 2"] }

Fens == {e.fen : e \in ChessTable} \cup {e.next : e \in ChessTable}

\* move in board.legal_moves, for board = chess.Board(fen)
IsLegal(fen, uci) == \E e \in ChessTable : e.fen = fen /\ e.uci = uci

Entry(fen, uci) == CHOOSE e \in ChessTable : e.fen = fen /\ e.uci = uci

\* chess.Move.from_uci(word) succeeds on a word of four or five
\* characters: one coordinate move.  The empty word and two moves written
\* together raise InvalidMoveError.
WellFormed(word) == Len(word) = 1 /\ word[1] \in UciMoves

\* board.san(move): the notation of the move in the position.  The table
\* holds the legal moves, which is what san() and push() are specified for.
BoardSan(fen, uci) == Entry(fen, uci).san

\* board.push(move); board.fen(): the position after a legal move.
BoardPush(fen, uci) == Entry(fen, uci).next

(***************************************************************************)
(* translate_moves(moves, fen).  The result is the returned string, or     *)
(* the exception that ends the call.                                       *)
(***************************************************************************)
Returned(v) == [ok |-> TRUE, val |-> v, err |-> "-"]
Raised(e) == [ok |-> FALSE, val |-> <<>>, err |-> e]

\* One pass of the loop body: san of the move on the board before the move
\* is pushed.
RECURSIVE TranslateLoop(_, _, _)
TranslateLoop(words, fen, proper_moves) ==
    IF words = <<>> THEN Returned(Join(proper_moves))
    ELSE IF ~WellFormed(Head(words)) THEN Raised("InvalidMoveError")
    ELSE TranslateLoop(Tail(words),
                       BoardPush(fen, Head(words)[1]),
                       Append(proper_moves, <<BoardSan(fen, Head(words)[1])>>))

\* translate_moves with the move pushed before its notation is taken: the
\* square the move starts from is then empty, and san() fails on its
\* assertion that a piece stands there.
TranslateMovesPushFirst(moves, fen) ==
    IF \E k \in 1..Len(SplitOn(moves)) : ~WellFormed(SplitOn(moves)[k])
    THEN Raised("InvalidMoveError")
    ELSE Raised("AssertionError")

TranslateMoves(moves, fen) == TranslateLoop(SplitOn(moves), fen, <<>>)

(***************************************************************************)
(* filter_puzzles(data, themes, all_themes, min_rating, max_rating, n).    *)
(***************************************************************************)

\* The truth value Python gives an optional number, string or boolean:
\* None, 0, "" and False are false.
TruthyNum(x) == x # None /\ x[1] # 0
TruthyStr(x) == x # None /\ x[1] # <<>>
TruthyBool(x) == x # None /\ x[1]

\* data["Rating"] = pd.to_numeric(data["Rating"], errors='coerce')
CoerceRatings(d) == [k \in 1..Len(d) |-> [d[k] EXCEPT !.Rating = ToNumeric(@)]]

\* data["Rating"] >= min_rating and data["Rating"] <= max_rating on one
\* cell: a comparison with NaN is False.
RatingGe(rating, bound) == rating # None /\ rating[1].num >= bound * rating[1].den
RatingLe(rating, bound) == rating # None /\ rating[1].num <= bound * rating[1].den

FilterMin(d, min_rating) ==
    IF TruthyNum(min_rating)
    THEN SelectSeq(d, LAMBDA row : RatingGe(row.Rating, min_rating[1]))
    ELSE d

FilterMax(d, max_rating) ==
    IF TruthyNum(max_rating)
    THEN SelectSeq(d, LAMBDA row : RatingLe(row.Rating, max_rating[1]))
    ELSE d

\* filter_mask &= data["Themes"].str.contains(theme, na=False), over the
\* tags in order, for one row.
RECURSIVE MaskAnd(_, _, _)
MaskAnd(filter_mask, tags, row) ==
    IF tags = <<>> THEN filter_mask
    ELSE MaskAnd(filter_mask /\ Contains(row.Themes, Head(tags)), Tail(tags), row)

\* filter_mask |= data["Themes"].str.contains(theme, na=False)
RECURSIVE MaskOr(_, _, _)
MaskOr(filter_mask, tags, row) ==
    IF tags = <<>> THEN filter_mask
    ELSE MaskOr(filter_mask \/ Contains(row.Themes, Head(tags)), Tail(tags), row)

\* The mask starts as pd.Series(True, index=data.index) in both modes.
FilterMask(row, themes, all_themes) ==
    IF TruthyBool(all_themes)
    THEN MaskAnd(TRUE, SplitOn(themes), row)
    ELSE MaskOr(TRUE, SplitOn(themes), row)

\* The Themes column as read_table types it: a column with no text in any
\* row is a float64 column of NaN, and data["Themes"].str on it raises
\* AttributeError.  Filtering rows keeps the column's type.
ThemesAreFloat(t) == Len(t) >= 1 /\ \A k \in 1..Len(t) : t[k].Themes = None

FilterThemes(d, themes, all_themes) ==
    IF TruthyStr(themes)
    THEN SelectSeq(d, LAMBDA row : FilterMask(row, themes[1], all_themes))
    ELSE d

\* AdvancedRow with the whole list kept: ' '.join(moves) for ' '.join(moves[1:]).
AdvancedRowKeepFirst(row) ==
    LET moves == Split(row.Moves)
    IN [row EXCEPT !.FEN = BoardPush(row.FEN, moves[1][1]),
                   !.Moves = Join(moves)]

\* The body of the loop over data.iterrows() for a row of two moves or
\* more: the first move is played on the board and dropped from the list.
AdvancedRow(row) ==
    LET moves == Split(row.Moves)
    IN [row EXCEPT !.FEN = BoardPush(row.FEN, moves[1][1]),
                   !.Moves = Join(Tail(moves))]

\* if len(moves) >= 2
HasNextMove(row) == Len(Split(row.Moves)) >= 2

\* SkipNumber counting the rows of the pass, as enumerate(..., 1) would.
SkipNumberByPlace(idx, pos) == pos

\* print(f"Skipping row {idx + 1}: Insufficient moves"), for the row with
\* index label idx met at place pos of the loop.
SkipNumber(idx, pos) == idx + 1

\* Truncated taking the last n rows: data.iloc[-n:, :].
TruncatedTail(d, n) == IF Len(d) <= n THEN d ELSE SubSeq(d, Len(d) - n + 1, Len(d))

\* data if data.shape[0] <= n else data.iloc[:n, :]
Truncated(d, n) == IF Len(d) <= n THEN d ELSE SubSeq(d, 1, n)

(***************************************************************************)
(* The state machine.  table is the loaded table, config the parsed        *)
(* config.yaml (or the keyword arguments of a direct call), tin the        *)
(* arguments of a call of translate_moves.                                 *)
(***************************************************************************)
NoArgs == [themes |-> None, all_themes |-> None, min_rating |-> None,
           max_rating |-> None, n |-> None]

\* The DataFrame of load_puzzles: the rows under a RangeIndex 0, 1, ...
Indexed(t) ==
    [k \in 1..Len(t) |-> [idx |-> k - 1, Rating |-> t[k].Rating,
                          Themes |-> t[k].Themes, Moves |-> t[k].Moves,
                          FEN |-> t[k].FEN]]

InitWith(Tables, Configs, Calls) ==
    /\ pc = "idle"
    /\ caller = "-"
    /\ table \in Tables
    /\ config \in Configs
    /\ tin \in Calls
    /\ args = NoArgs
    /\ data = <<>>
    /\ i = 0
    /\ printed = <<>>
    /\ result = <<>>
    /\ tout = Raised("-")

\* main(): every option is read with config.get, which gives None for an
\* absent key, and passed on by keyword.
Main ==
    /\ pc = "idle"
    /\ pc' = "rating"
    /\ caller' = "main"
    /\ args' = [themes |-> config.themes, all_themes |-> config.all_themes,
                min_rating |-> config.min_rating,
                max_rating |-> config.max_rating, n |-> config.n]
    /\ data' = Indexed(table)
    /\ UNCHANGED <<table, config, i, printed, result, tin, tout>>

\* A direct call filter_puzzles(data, **config): an absent keyword takes
\* the default of the signature, None except all_themes=True.
CallFilterPuzzles ==
    /\ pc = "idle"
    /\ pc' = "rating"
    /\ caller' = "direct"
    /\ args' = [themes |-> config.themes,
                all_themes |-> IF config.all_themes = None THEN Some(TRUE)
                               ELSE config.all_themes,
                min_rating |-> config.min_rating,
                max_rating |-> config.max_rating, n |-> config.n]
    /\ data' = Indexed(table)
    /\ UNCHANGED <<table, config, i, printed, result, tin, tout>>

RatingFilter ==
    /\ pc = "rating"
    /\ pc' = "themes"
    /\ data' = FilterMax(FilterMin(CoerceRatings(data), args.min_rating),
                         args.max_rating)
    /\ UNCHANGED <<caller, table, config, args, i, printed, result, tin, tout>>

ThemeFilter ==
    /\ pc = "themes"
    /\ IF TruthyStr(args.themes) /\ ThemesAreFloat(table)
       THEN /\ pc' = "raised"
            /\ UNCHANGED <<data, i>>
       ELSE /\ pc' = "advance"
            /\ data' = FilterThemes(data, args.themes, args.all_themes)
            /\ i' = 1
    /\ UNCHANGED <<caller, table, config, args, printed, result, tin, tout>>

\* read_table loads an empty field as NaN, a float: an empty Moves is a
\* missing cell, and row['Moves'].split() raises AttributeError on it.
MovesAreMissing(row) == row.Moves = <<>>

\* One iteration of the loop over data.iterrows().  A missing Moves cell
\* and a malformed first word (Move.from_uci) raise; the exception leaves
\* filter_puzzles.
AdvanceRow ==
    /\ pc = "advance"
    /\ i <= Len(data)
    /\ LET row == data[i]
           moves == Split(row.Moves)
       IN IF MovesAreMissing(row)
          THEN /\ pc' = "raised"
               /\ UNCHANGED <<data, i, printed>>
          ELSE IF HasNextMove(row)
          THEN IF WellFormed(moves[1])
               THEN /\ data' = [data EXCEPT ![i] = AdvancedRow(row)]
                    /\ i' = i + 1
                    /\ UNCHANGED <<pc, printed>>
               ELSE /\ pc' = "raised"
                    /\ UNCHANGED <<data, i, printed>>
          ELSE /\ printed' = Append(printed,
                                    [number |-> SkipNumber(row.idx, i), pos |-> i])
               /\ i' = i + 1
               /\ UNCHANGED <<pc, data>>
    /\ UNCHANGED <<caller, table, config, args, result, tin, tout>>

\* The comparison data.shape[0] <= n raises TypeError when n is None.
Truncate ==
    /\ pc = "advance"
    /\ i > Len(data)
    /\ IF args.n = None
       THEN /\ pc' = "raised"
            /\ UNCHANGED result
       ELSE /\ pc' = "done"
            /\ result' = Truncated(data, args.n[1])
    /\ UNCHANGED <<caller, table, config, args, data, i, printed, tin, tout>>

Translate ==
    /\ pc = "idle"
    /\ pc' = "translated"
    /\ tout' = TranslateMoves(tin.moves, tin.fen)
    /\ UNCHANGED <<caller, table, config, args, data, i, printed, result, tin>>

Next ==
    \/ Main
    \/ CallFilterPuzzles
    \/ RatingFilter
    \/ ThemeFilter
    \/ AdvanceRow
    \/ Truncate
    \/ Translate

(***************************************************************************)
(* Inputs.  Every table holds rows whose first move, when the row has two  *)
(* moves or more and the move is well formed, is legal in the row's        *)
(* position, as in the puzzle database, and every call of translate_moves  *)
(* gives moves that are legal in turn or malformed: on other moves the     *)
(* chess library is used outside what it specifies.                        *)
(***************************************************************************)
DefaultMoves == <<"a1d1", " ", "g8g7">>

DefaultRow == [Rating |-> <<"1">>, Themes |-> Some(<<"a">>),
               Moves |-> DefaultMoves, FEN |-> StartFen]

DefaultCall == [moves |-> <<"a1d1">>, fen |-> StartFen]

TablesOf(Rows) == SeqsUpTo(Rows, MaxRows)

OptBounds == {None} \cup {Some(b) : b \in 0..MaxBound}

OptBools == {None, Some(TRUE), Some(FALSE)}

RECURSIVE IsLegalPath(_, _)
IsLegalPath(fen, path) ==
    \/ path = <<>>
    \/ /\ IsLegal(fen, Head(path))
       /\ IsLegalPath(BoardPush(fen, Head(path)), Tail(path))

LegalPaths(fen) == {path \in SeqsUpTo(UciMoves, MaxMoves) : IsLegalPath(fen, path)}

Words(path) == [k \in 1..Len(path) |-> <<path[k]>>]

\* The moves written with single spaces, and written with a leading space
\* and double spaces.
Spaced(path) == Join(Words(path))

RECURSIVE Padded(_)
Padded(path) ==
    IF path = <<>> THEN <<" ">>
    ELSE <<" ", " ", Head(path)>> \o (IF Len(path) = 1 THEN <<>> ELSE Padded(Tail(path)))

MovesOf(fen) ==
    {Spaced(path) : path \in LegalPaths(fen)} \cup {Padded(path) : path \in LegalPaths(fen)}

RatingInputs ==
    {<<>>, <<"x">>, <<"1">>, <<"2">>, <<"1", "0">>, <<"1", ".", "0">>,
     <<"1", ".", "5">>, <<"-", "1">>, <<" ", "1">>, <<"1", "e", "2">>}

RatingRows == {[DefaultRow EXCEPT !.Rating = r] : r \in RatingInputs}

RatingConfigs ==
    {[NoArgs EXCEPT !.min_rating = lo, !.max_rating = hi, !.n = Some(MaxCap)] :
        lo \in OptBounds, hi \in OptBounds}

ThemesInputs ==
    {None, Some(<<"a">>), Some(<<"b">>), Some(<<"a", "b">>),
     Some(<<"b", "a">>), Some(<<"a", " ", "b">>)}

ThemeArgs ==
    {None, Some(<<>>), Some(<<"a">>), Some(<<"b">>), Some(<<"a", "b">>),
     Some(<<"a", " ", "b">>), Some(<<"a", " ", " ", "b">>), Some(<<" ">>),
     Some(<<"a", ".">>), Some(<<"a", ".", "b">>)}

ThemeRows == {[DefaultRow EXCEPT !.Themes = t] : t \in ThemesInputs}

ThemeConfigs ==
    {[NoArgs EXCEPT !.themes = th, !.all_themes = at, !.n = Some(MaxCap)] :
        th \in ThemeArgs, at \in OptBools}

MoveFens == {StartFen, "6k1/7R/8/8/8/8/6K1/R7 b - - 1 1"}

MoveRows ==
    UNION {{[DefaultRow EXCEPT !.FEN = f, !.Moves = m] : m \in MovesOf(f)} :
              f \in MoveFens}
    \cup {[DefaultRow EXCEPT !.Moves = <<"a1d1", "g8g7", " ", "d1d7">>]}

MoveConfigs == {[NoArgs EXCEPT !.n = Some(MaxCap)]}

CapRows ==
    {[DefaultRow EXCEPT !.Rating = r, !.Moves = m] :
        r \in {<<"1">>, <<"2">>}, m \in {<<" ">>, <<"a1d1">>, DefaultMoves}}

CapConfigs ==
    {[NoArgs EXCEPT !.min_rating = lo, !.n = cap] :
        lo \in {None, Some(2)}, cap \in {None} \cup {Some(c) : c \in 0..MaxCap}}

TranslateCalls ==
    UNION {{[moves |-> m, fen |-> f] : m \in MovesOf(f)} : f \in Fens}

Init == InitWith(TablesOf(RatingRows), RatingConfigs, {DefaultCall})
Spec == Init /\ [][Next]_vars

InitThemes == InitWith(TablesOf(ThemeRows), ThemeConfigs, {DefaultCall})
SpecThemes == InitThemes /\ [][Next]_vars

InitMoves == InitWith(TablesOf(MoveRows), MoveConfigs, {DefaultCall})
SpecMoves == InitMoves /\ [][Next]_vars

InitCap == InitWith(SeqsUpTo(CapRows, MaxCapRows), CapConfigs, {DefaultCall})
SpecCap == InitCap /\ [][Next]_vars

InitTranslate == InitWith(TablesOf({DefaultRow}), MoveConfigs, TranslateCalls)
SpecTranslate == InitTranslate /\ [][Next]_vars

(***************************************************************************)
(* Vocabulary of the properties.                                           *)
(***************************************************************************)

\* t occurs in s as a substring.
IsSubstring(t, s) ==
    \E off \in 0..(Len(s) - Len(t)) : \A k \in 1..Len(t) : t[k] = s[off + k]

\* The tags of a theme string: its words.
TagsOf(themes) == {Split(themes)[k] : k \in 1..Len(Split(themes))}

HasTags == args.themes # None /\ TagsOf(args.themes[1]) # {}

HasEveryTag(row) ==
    /\ row.Themes # None
    /\ \A t \in TagsOf(args.themes[1]) : IsSubstring(t, row.Themes[1])

HasSomeTag(row) ==
    /\ row.Themes # None
    /\ \E t \in TagsOf(args.themes[1]) : IsSubstring(t, row.Themes[1])

\* The row of the loaded table that a row of the frame comes from.
Original(row) == table[row.idx + 1]

Returns(k) == \E j \in 1..Len(result) : result[j].idx = k - 1

(***************************************************************************)
(* C1.  Every returned row has a numeric Rating that is at least the       *)
(* minimum when a minimum is given and at most the maximum when a maximum  *)
(* is given; a row whose Rating is not a number is never returned when a   *)
(* bound is given.                                                         *)
(***************************************************************************)
C1_RatingWithinBounds ==
    pc = "done" =>
        \A k \in 1..Len(result) :
            /\ args.min_rating # None =>
                   /\ result[k].Rating # None
                   /\ result[k].Rating[1].num >=
                          args.min_rating[1] * result[k].Rating[1].den
            /\ args.max_rating # None =>
                   /\ result[k].Rating # None
                   /\ result[k].Rating[1].num <=
                          args.max_rating[1] * result[k].Rating[1].den

(***************************************************************************)
(* C2.  In disjunctive mode with a non-empty theme set, a returned row     *)
(* has Themes and at least one tag occurs in it as a substring.            *)
(***************************************************************************)
C2_DisjunctiveKeepsOnlyMatching ==
    (pc = "done" /\ args.all_themes = Some(FALSE) /\ HasTags) =>
        \A k \in 1..Len(result) : HasSomeTag(result[k])

(***************************************************************************)
(* C3.  In conjunctive mode with a non-empty theme set, a row that passed  *)
(* the rating filter is retained if and only if every tag occurs in its    *)
(* Themes as a substring (the cap of these runs is above the row count).   *)
(***************************************************************************)
C3_ConjunctiveKeepsExactlyMatching ==
    (pc = "done" /\ args.all_themes = Some(TRUE) /\ HasTags) =>
        \A k \in 1..Len(table) :
            Returns(k) <=> HasEveryTag(Indexed(table)[k])

(***************************************************************************)
(* C9.  When the configuration gives no all_themes, main filters by        *)
(* conjunction: with a non-empty theme set, every returned row has every   *)
(* tag as a substring of its Themes.                                       *)
(***************************************************************************)
C9_MainDefaultsToConjunction ==
    (pc = "done" /\ caller = "main" /\ config.all_themes = None /\ HasTags) =>
        \A k \in 1..Len(result) : HasEveryTag(result[k])

(***************************************************************************)
(* C8.  translate_moves of the empty string returns the empty string and   *)
(* raises nothing.                                                         *)
(***************************************************************************)
C8_EmptyGivesEmpty ==
    (pc = "translated" /\ tin.moves = <<>>) => (tout.ok /\ tout.val = <<>>)

(***************************************************************************)
(* C4.  A row with moves m1 m2 ... mk, k >= 2, that survives the filters   *)
(* ends with Moves = "m2 ... mk", single spaces between, and with the      *)
(* position reached by m1 from its original position; the step is taken    *)
(* once: rows the loop has passed are advanced, rows it has not reached    *)
(* are as loaded.                                                          *)
(***************************************************************************)
AdvancedOnce(row) ==
    LET moves == Split(Original(row).Moves)
    IN /\ row.Moves = Join(Tail(moves))
       /\ Split(row.Moves) = Tail(moves)
       /\ row.FEN = BoardPush(Original(row).FEN, moves[1][1])

AsLoaded(row) ==
    /\ row.Moves = Original(row).Moves
    /\ row.FEN = Original(row).FEN

C4_FirstMoveApplied ==
    /\ pc \in {"advance", "done"} =>
           \A k \in 1..Len(data) :
               Len(Split(Original(data[k]).Moves)) >= 2 =>
                   IF k < i THEN AdvancedOnce(data[k]) ELSE AsLoaded(data[k])
    /\ pc = "done" =>
           \A k \in 1..Len(result) :
               Len(Split(Original(result[k]).Moves)) >= 2 =>
                   AdvancedOnce(result[k])

C4_Witness ==
    /\ pc = "done"
    /\ \E k \in 1..Len(result) :
           /\ Len(Split(Original(result[k]).Moves)) = 3
           /\ Original(result[k]).Moves # Join(Split(Original(result[k]).Moves))
           /\ Len(Split(result[k].Moves)) = 2
           /\ result[k].FEN # Original(result[k]).FEN

(***************************************************************************)
(* C5.  A surviving row with fewer than two moves keeps its Position and   *)
(* Moves, a diagnostic is printed for it, it stays in the result, and the  *)
(* rows after it are still advanced: the loop never stops at such a row,   *)
(* and on return every short row is as loaded and reported, every other    *)
(* row advanced.                                                           *)
(***************************************************************************)
IsShort(row) == Len(Split(Original(row).Moves)) < 2

\* The loop has raised while at row i.
RaisedAtRow == pc = "raised" /\ i \in 1..Len(data)

C5_ShortRowsLeftAlone ==
    /\ RaisedAtRow => ~IsShort(data[i])
    /\ pc = "done" =>
           /\ Len(result) = Len(data)
           /\ \A k \in 1..Len(result) :
                  IF IsShort(result[k])
                  THEN /\ AsLoaded(result[k])
                       /\ \E p \in 1..Len(printed) : printed[p].pos = k
                  ELSE /\ AdvancedOnce(result[k])
                       /\ \A p \in 1..Len(printed) : printed[p].pos # k

(***************************************************************************)
(* C6.  With a cap n >= 1 the result has min(n, number of rows passing     *)
(* the filters) rows, and they are the first such rows of the table in     *)
(* their original order.                                                   *)
(***************************************************************************)
PassesFilters(row) ==
    LET rating == ToNumeric(row.Rating)
    IN args.min_rating # None =>
           (rating # None /\ rating[1].num >= args.min_rating[1] * rating[1].den)

Passing == {k \in 1..Len(table) : PassesFilters(table[k])}

\* The place in the table of the j-th passing row.
NthPassing(j) ==
    CHOOSE k \in Passing : Cardinality({m \in Passing : m <= k}) = j

C6_CapTakesPrefix ==
    (pc = "done" /\ args.n[1] >= 1) =>
        /\ Len(result) = Min(args.n[1], Cardinality(Passing))
        /\ \A j \in 1..Len(result) : result[j].idx + 1 = NthPassing(j)

C6_Witness ==
    /\ pc = "done"
    /\ args.n[1] >= 1
    /\ Len(result) = args.n[1]
    /\ Cardinality(Passing) > args.n[1]
    /\ Cardinality(Passing) < Len(table)

(***************************************************************************)
(* C7.  For moves m1 ... mk, k >= 1, written with single spaces and legal  *)
(* from position P, translate_moves returns k notations with single        *)
(* spaces, the i-th being the notation of mi on the board reached from P   *)
(* by m1 ... m(i-1).                                                       *)
(***************************************************************************)
RECURSIVE BoardAfter(_, _)
BoardAfter(fen, path) ==
    IF path = <<>> THEN fen
    ELSE BoardAfter(BoardPush(fen, Head(path)), Tail(path))

CallIsLegalLine ==
    /\ tin.moves # <<>>
    /\ \A k \in 1..Len(SplitOn(tin.moves)) : WellFormed(SplitOn(tin.moves)[k])
    /\ IsLegalPath(tin.fen, [k \in 1..Len(SplitOn(tin.moves)) |-> SplitOn(tin.moves)[k][1]])

C7_NotationInOrder ==
    (pc = "translated" /\ CallIsLegalLine) =>
        LET path == [k \in 1..Len(SplitOn(tin.moves)) |-> SplitOn(tin.moves)[k][1]]
        IN /\ tout.ok
           /\ Len(SplitOn(tout.val)) = Len(path)
           /\ \A k \in 1..Len(path) :
                  SplitOn(tout.val)[k] =
                      <<BoardSan(BoardAfter(tin.fen, SubSeq(path, 1, k - 1)), path[k])>>

C7_Witness ==
    /\ pc = "translated"
    /\ tin = [moves |-> <<"h1h7", " ", "g8h7", " ", "a1d1">>, fen |-> StartFen]
    /\ tout.ok
    /\ tout.val = <<"Rh7", " ", "Kxh7", " ", "Rd1">>

(***************************************************************************)
(* C10.  As claimed: the number in the diagnostic of a skipped row is the  *)
(* row's place, from 1, among the rows of the pass.                        *)
(***************************************************************************)
C10_NumberIsPlaceInPass ==
    \A p \in 1..Len(printed) : printed[p].number = printed[p].pos

(***************************************************************************)
(* C10, amended.  The number in the diagnostic of a skipped row is the     *)
(* row's index label plus one: its place, from 1, in the loaded table.     *)
(***************************************************************************)
C10_NumberIsPlaceInTable ==
    \A p \in 1..Len(printed) :
        /\ printed[p].number = data[printed[p].pos].idx + 1
        /\ printed[p].number \in 1..Len(table)
        /\ Len(Split(table[printed[p].number].Moves)) < 2
        /\ ToNumeric(table[printed[p].number].Rating) = data[printed[p].pos].Rating

C10_Witness ==
    /\ pc = "done"
    /\ \E p \in 1..Len(printed) :
           /\ printed[p].number = 2
           /\ printed[p].pos = 1

====
